---- MODULE Spec2Model ----
(***************************************************************************)
(* Eisenpower local-first synchronisation engine (blob-sync App,           *)
(* src/src/App.jsx): the local store of one or two devices, the remote     *)
(* user_data row, the debounced upload effect, the realtime listener and   *)
(* the loadCloudData merge.                                                *)
(*                                                                         *)
(* A record is [id, text, updatedAt, deletedAt].  updatedAt = 0 and        *)
(* deletedAt = 0 stand for an absent (undefined) field.  Arrays are        *)
(* sequences: JSON.stringify, which the engine uses as its hash, depends   *)
(* on the order of the elements.                                           *)
(***************************************************************************)
EXTENDS Integers, Sequences, FiniteSets, TLC

\* ------------------------------------------------------------------ bounds
\* Largest version (updatedAt) of the records drawn in the merge harness.
MaxVer == 2

\* Ids and texts of the records drawn in the merge harness.
MergeIds == {1, 2}

\* ----------------------------------------------------------------- records
Rec(i, txt, u, del) == [id |-> i, text |-> txt, updatedAt |-> u, deletedAt |-> del]

\* t.updatedAt || t.id : a falsy (absent or zero) updatedAt falls back to the id.
Ver(t) == IF t.updatedAt # 0 THEN t.updatedAt ELSE t.id

Ids(list) == {list[i].id : i \in 1..Len(list)}

HasId(list, id) == \E i \in 1..Len(list) : list[i].id = id

\* Array.prototype.find: the first element with the id.
Find(list, id) == list[CHOOSE i \in 1..Len(list) :
                         /\ list[i].id = id
                         /\ \A j \in 1..(i - 1) : list[j].id # id]

\* prev.filter(t => t.id !== id)
RECURSIVE Without(_, _)
Without(list, id) ==
    IF list = << >> THEN << >>
    ELSE IF Head(list).id = id THEN Without(Tail(list), id)
         ELSE <<Head(list)>> \o Without(Tail(list), id)

\* Map.prototype.set on a Map kept as the sequence of its values in insertion
\* order: an existing key keeps its position and takes the new value.
MapSet(map, t) ==
    IF HasId(map, t.id)
    THEN [i \in 1..Len(map) |-> IF map[i].id = t.id THEN t ELSE map[i]]
    ELSE Append(map, t)

\* new Map(list.map(t => [t.id, t]))
RECURSIVE MapOf(_)
MapOf(list) ==
    IF list = << >> THEN << >>
    ELSE MapSet(MapOf(SubSeq(list, 1, Len(list) - 1)), list[Len(list)])

\* ------------------------------------------------------- loadCloudData merge
\* The forEach body of step 1: the later element replaces the entry when its
\* version is greater or equal; a new id is always entered (existingVer = -1).
DeletedStep(map, t) ==
    IF HasId(map, t.id)
    THEN IF Ver(t) >= Ver(Find(map, t.id)) THEN MapSet(map, t) ELSE map
    ELSE MapSet(map, t)

RECURSIVE DeletedFold(_, _)
DeletedFold(map, rest) ==
    IF rest = << >> THEN map
    ELSE DeletedFold(DeletedStep(map, Head(rest)), Tail(rest))

\* A merge of the tombstones that only concatenates the two arrays.
MergeDeletedConcat(localDeleted, cloudDeleted) == localDeleted \o cloudDeleted

\* Step 1: finalDeleted.
MergeDeleted(localDeleted, cloudDeleted) ==
    DeletedFold(<< >>, localDeleted \o cloudDeleted)

\* A comparison that always keeps the local copy.
PickLocal(local, cloud) == local

\* localVer >= cloudVer ? local : cloud
PickLWW(local, cloud) == IF Ver(local) >= Ver(cloud) THEN local ELSE cloud

\* A merge in which the remote is authoritative for one-sided records.
DropOneSided(rec, finalDeleted) == FALSE

\* A merge that keeps every one-sided record, tombstone or not.
KeepAlways(rec, finalDeleted) == TRUE

\* if (!finalDeletedMap.has(id)) finalTasks.push(...)
KeepOneSided(rec, finalDeleted) == ~HasId(finalDeleted, rec.id)

\* allIds: the keys of localMap, then the keys of cloudMap that are new.
AllIds(localMap, cloudMap) ==
    [i \in 1..Len(localMap) |-> localMap[i].id]
      \o [i \in 1..Len(SelectSeq(cloudMap, LAMBDA c : ~HasId(localMap, c.id))) |->
            SelectSeq(cloudMap, LAMBDA c : ~HasId(localMap, c.id))[i].id]

\* The forEach body of step 2 for one id: what is pushed to finalTasks.
Pushed(id, localMap, cloudMap, finalDeleted) ==
    IF HasId(localMap, id) /\ HasId(cloudMap, id)
    THEN <<PickLWW(Find(localMap, id), Find(cloudMap, id))>>
    ELSE IF HasId(cloudMap, id)
         THEN IF KeepOneSided(Find(cloudMap, id), finalDeleted)
              THEN <<Find(cloudMap, id)>> ELSE << >>
         ELSE IF KeepOneSided(Find(localMap, id), finalDeleted)
              THEN <<Find(localMap, id)>> ELSE << >>

RECURSIVE TasksFold(_, _, _, _)
TasksFold(ids, localMap, cloudMap, finalDeleted) ==
    IF ids = << >> THEN << >>
    ELSE Pushed(Head(ids), localMap, cloudMap, finalDeleted)
           \o TasksFold(Tail(ids), localMap, cloudMap, finalDeleted)

\* Step 2: finalTasks.
MergeTasks(localTasks, cloudTasks, finalDeleted) ==
    TasksFold(AllIds(MapOf(localTasks), MapOf(cloudTasks)),
              MapOf(localTasks), MapOf(cloudTasks), finalDeleted)

\* JSON.stringify({ tasks, deleted_tasks }): equal exactly when both arrays are
\* equal element by element, in order.
Hash(taskList, deletedList) == <<taskList, deletedList>>

\* The absent row (maybeSingle() returning null data).
NoRow == [present |-> FALSE, tasks |-> << >>, deleted_tasks |-> << >>]

Row(taskList, deletedList) ==
    [present |-> TRUE, tasks |-> taskList, deleted_tasks |-> deletedList]

\* cloudTasks / cloudDeleted default to [] when there is no row.
CloudTasks(data) == IF data.present THEN data.tasks ELSE << >>
CloudDeleted(data) == IF data.present THEN data.deleted_tasks ELSE << >>

\* The whole merge: the new deletedTasks, the new tasks and the new baseline.
Merge(localTasks, localDeleted, data) ==
    LET finalDeleted == MergeDeleted(localDeleted, CloudDeleted(data))
        finalTasks == MergeTasks(localTasks, CloudTasks(data), finalDeleted)
    IN [tasks |-> finalTasks, deleted |-> finalDeleted,
        hash |-> Hash(finalTasks, finalDeleted)]

\* ------------------------------------------------------------------- system
\* Bounds of the system model: user mutations, clock steps, failed remote
\* calls, sign-ins, loadCloudData calls in flight per device, undelivered realtime
\* notifications per device.
MaxOps == 2
MaxTicks == 3
MaxFails == 1
MaxSignIns == 1
MaxLoads == 1
MaxEvents == 1

\* Bounds of the two-device runs: user mutations and clock steps.
TwoOps == 1
TwoTicks == 2

\* The clock reading (Date.now()) in the initial state.
Epoch == 10

\* setTimeout(..., 1500)
DebounceMs == 1500

\* now - (24 * 60 * 60 * 1000)
TwentyFourHours == 24 * 60 * 60 * 1000

\* Bounds of the runs against a row written by a device whose clock is ahead:
\* user mutations, clock steps, and how far that clock is ahead (ms).
AheadOps == 2
AheadTicks == 2
Ahead == 5

\* Bounds of the runs with two accounts: sessions delivered and clock steps.
AuthSignIns == 3
AuthTicks == 2

\* Bounds of the runs in which the account changes: user mutations, clock
\* steps and sessions delivered.
LeakOps == 1
LeakTicks == 1
LeakSignIns == 2

\* Bounds of the recycle-bin runs: user actions and waits.
PurgeOps == 3
PurgeWaits == 3

AllDevices == {"d1", "d2"}
AllUsers == {"u1", "u2"}
\* Texts typed into the creation modal and into the title editor.
NewTexts == {"foo"}
EditTexts == {"bar"}

NoSession == "none"
NoHash == << >>
NoTimer == [armed |-> FALSE, due |-> 0, tasks |-> << >>, deleted |-> << >>,
            user |-> NoSession]

\* The default demo tasks of a fresh installation: ids 1 and 2, no updatedAt.
DemoTasks == <<Rec(1, "Launch Eisenpower", 0, 0), Rec(2, "Plan next features", 0, 0)>>

\* JSON backup files the user can pick in the settings menu.
BackupFiles == {DemoTasks}

VARIABLES
    now,                \* Date.now()
    tasks,              \* [device -> array]   useState tasks / tasksRef
    deletedTasks,       \* [device -> array]   useState deletedTasks / deletedTasksRef
    session,            \* [device -> user or NoSession]
    lastConvergedHash,  \* [device -> hash or NoHash]   lastConvergedHashRef
    syncInProgress,     \* [device -> BOOLEAN]          syncInProgressRef
    hasSynced,          \* [device -> BOOLEAN]   localStorage 'eisenpower-has-synced'
    timer,              \* [device -> pending debounce timer with its closure]
    upserts,            \* [device -> upsert calls in flight]
    loads,              \* [device -> loadCloudData calls in flight]
    channel,            \* [device -> users whose channel is subscribed]
    events,             \* [device -> undelivered realtime notifications]
    remote,             \* [user -> user_data row]
    hist,               \* [device -> observations used by the properties]
    used,               \* budget used: ops, ticks, fails, signins
    budget,             \* the budget of the run, fixed by the initial state
    mrg,                \* the merge harness: inputs and outputs of loadCloudData
    mig,                \* the migration harness: inputs and result of migrateTasksToRelational
    rel,                \* the relational App: its tasks and the realtime events
    node                \* a TaskNode of the relational App: its drag state

\* The harnesses at rest.
NoMig == [stage |-> "off"]
NoRel == [stage |-> "off"]
NoNode == [stage |-> "off"]

NoBudget == [ops |-> 0, ticks |-> 0, fails |-> 0, signins |-> 0, users |-> {}]

NoHist == [lastChange |-> 0, burst |-> 0, sent |-> 0, dropped |-> FALSE,
           offline |-> {}, merged |-> FALSE, settled |-> FALSE, loaded |-> FALSE,
           expired |-> {}, notFound |-> {}, sweptAt |-> 0,
           prev |-> NoSession, removed |-> {}, failed |-> FALSE, retry |-> FALSE,
           made |-> {}]

\* The state after construction, for each given choice of persisted task
\* arrays and the given budget.
SysInitWith(persisted, limits, rows) ==
    /\ budget = limits
    /\ now = Epoch
    /\ tasks \in persisted
    /\ deletedTasks = [d \in AllDevices |-> << >>]
    /\ session = [d \in AllDevices |-> NoSession]
    /\ lastConvergedHash = [d \in AllDevices |-> NoHash]
    /\ syncInProgress = [d \in AllDevices |-> FALSE]
    /\ hasSynced = [d \in AllDevices |-> FALSE]
    /\ timer = [d \in AllDevices |-> NoTimer]
    /\ upserts = [d \in AllDevices |-> << >>]
    /\ loads = [d \in AllDevices |-> << >>]
    /\ channel = [d \in AllDevices |-> {}]
    /\ events = [d \in AllDevices |-> 0]
    /\ remote = rows
    /\ hist = [d \in AllDevices |-> NoHist]
    /\ used = [ops |-> 0, ticks |-> 0, fails |-> 0, signins |-> 0]

\* The same with no row in the remote store.
SysInit(persisted, limits) ==
    SysInitWith(persisted, limits, [u \in AllUsers |-> NoRow])

Range(list) == {list[i] : i \in 1..Len(list)}

RemoveAt(list, i) == SubSeq(list, 1, i - 1) \o SubSeq(list, i + 1, Len(list))

\* An effect run that does not reset a timer that is already pending.
RearmKeep(d, t, newTasks, newDeleted, newSession) ==
    IF newSession = NoSession THEN NoTimer
    ELSE IF timer[d].armed /\ timer[d].user = newSession THEN timer[d]
    ELSE [armed |-> TRUE, due |-> t + DebounceMs, tasks |-> newTasks,
          deleted |-> newDeleted, user |-> newSession]

\* The upload effect re-running on a change of [tasks, deletedTasks, session]:
\* its cleanup clears the pending timer, its body sets a new one unless there
\* is no session.
Rearm(d, t, newTasks, newDeleted, newSession) ==
    IF newSession = NoSession THEN NoTimer
    ELSE [armed |-> TRUE, due |-> t + DebounceMs, tasks |-> newTasks,
          deleted |-> newDeleted, user |-> newSession]

\* setTasks / setDeletedTasks on device d, with the effects they trigger.
SetState(d, t, newTasks, newDeleted) ==
    /\ tasks' = [tasks EXCEPT ![d] = newTasks]
    /\ deletedTasks' = [deletedTasks EXCEPT ![d] = newDeleted]
    /\ timer' = [timer EXCEPT ![d] = Rearm(d, t, newTasks, newDeleted, session[d])]

\* Observation: a change of the active or tombstone set of d at this instant,
\* made by a handler ("user"), by the loadCloudData call of the load-on-login
\* effect ("login"), by one of the realtime callback ("realtime"), or by a
\* loadCloudData call of an earlier session ("stale").
Noted(d, t, cause, offlineIds) ==
    [hist[d] EXCEPT
       !.lastChange = t,
       !.burst = IF timer[d].armed /\ @ < 2 THEN @ + 1
                 ELSE IF timer[d].armed THEN @ ELSE 1,
       !.sent = 0,
       !.dropped = IF cause = "user" THEN FALSE ELSE @,
       !.offline = offlineIds,
       !.merged = cause = "realtime",
       !.settled = FALSE,
       !.loaded = @ \/ cause \in {"login", "realtime"},
       !.retry = IF cause = "user" THEN hist[d].failed ELSE @]

NoteChange(d, t, cause, offlineIds) ==
    hist' = [hist EXCEPT ![d] = Noted(d, t, cause, offlineIds)]

ArmedDues == {timer[d].due : d \in {e \in AllDevices : timer[e].armed}}

\* Clock readings a handler can get: a user action falls in a later
\* millisecond than the previous event, and not later than a timer that is
\* still to fire.
Readings == {t \in {now + 1} : \A due \in ArmedDues : t <= due}

\* A user action at clock reading t.
UserOp(t) == /\ used.ops < budget.ops
             /\ used' = [used EXCEPT !.ops = @ + 1]
             /\ now' = t

DeviceIdle ==
    UNCHANGED <<mrg, mig, rel, node, budget, session, lastConvergedHash, syncInProgress, hasSynced,
                upserts, loads, channel, events, remote>>

\* handleCreateTask: id and updatedAt are Date.now().  Two submissions of the
\* modal on one device never fall in the same millisecond.
handleCreateTask(d, t, text) ==
    /\ UserOp(t)
    /\ ~HasId(tasks[d], t) /\ ~HasId(deletedTasks[d], t)
    /\ SetState(d, t, Append(tasks[d], Rec(t, text, t, 0)), deletedTasks[d])
    /\ hist' = [hist EXCEPT ![d] =
                  [Noted(d, t, "user", IF session[d] = NoSession
                                       THEN hist[d].offline \cup {t} ELSE hist[d].offline)
                     EXCEPT !.made = @ \cup {[user |-> session[d], id |-> t]}]]
    /\ DeviceIdle

\* editTask: prev.map(task => task.id === taskId ? {...task, text, updatedAt} : task)
editTask(d, t, id, text) ==
    /\ UserOp(t)
    /\ HasId(tasks[d], id)
    /\ SetState(d, t, [i \in 1..Len(tasks[d]) |->
                      IF tasks[d][i].id = id
                      THEN [tasks[d][i] EXCEPT !.text = text, !.updatedAt = t]
                      ELSE tasks[d][i]],
                deletedTasks[d])
    /\ NoteChange(d, t, "user", hist[d].offline)
    /\ DeviceIdle

\* deleteTask: the first task with the id goes to the recycle bin with
\* deletedAt and updatedAt; every task with the id leaves the active set.
deleteTask(d, t, id) ==
    /\ UserOp(t)
    /\ HasId(tasks[d], id)
    /\ SetState(d, t, Without(tasks[d], id),
                Append(deletedTasks[d],
                       [Find(tasks[d], id) EXCEPT !.deletedAt = t, !.updatedAt = t]))
    /\ NoteChange(d, t, "user", hist[d].offline \ {id})
    /\ DeviceIdle

\* restoreTask: the first tombstone with the id goes back to the active set
\* without deletedAt and with a new updatedAt; every tombstone with the id goes.
\* With no tombstone of the id, find() gives undefined and nothing is set.
restoreTask(d, t, id) ==
    /\ UserOp(t)
    /\ IF HasId(deletedTasks[d], id)
       THEN /\ SetState(d, t, Append(tasks[d],
                                  [Find(deletedTasks[d], id) EXCEPT !.deletedAt = 0,
                                                                    !.updatedAt = t]),
                        Without(deletedTasks[d], id))
            /\ NoteChange(d, t, "user", hist[d].offline)
       ELSE /\ hist' = [hist EXCEPT ![d].notFound = @ \cup {id}]
            /\ UNCHANGED <<tasks, deletedTasks, timer>>
    /\ DeviceIdle

\* permanentlyDeleteTask
permanentlyDeleteTask(d, t, id) ==
    /\ UserOp(t)
    /\ HasId(deletedTasks[d], id)
    /\ SetState(d, t, tasks[d], Without(deletedTasks[d], id))
    /\ hist' = [hist EXCEPT ![d] = [Noted(d, t, "user", hist[d].offline) EXCEPT
                                      !.removed = @ \cup {id}]]
    /\ DeviceIdle

\* SettingsMenu handleRestore: setTasks(data) with the array of the chosen file.
handleRestore(d, t, data) ==
    /\ UserOp(t)
    /\ SetState(d, t, data, deletedTasks[d])
    /\ NoteChange(d, t, "user", hist[d].offline \cap Ids(data))
    /\ DeviceIdle

\* A loadCloudData call started with the session of its closure.
NewLoad(u) == [user |-> u, stage |-> "sent", data |-> NoRow, realtime |-> FALSE]

\* An effect run that leaves the channel of the previous run subscribed.
SubscribedKeep(d, newSession) ==
    channel[d] \cup (IF newSession = NoSession THEN {} ELSE {newSession})

\* The realtime effect re-running on a change of session: its cleanup removes
\* the channel the previous run subscribed, its body subscribes the channel of
\* the new session's user unless there is no session.
Subscribed(d, newSession) ==
    (channel[d] \ {session[d]}) \cup (IF newSession = NoSession THEN {} ELSE {newSession})

\* onAuthStateChange delivering a session, the first or that of another user
\* than the one signed in: the load-on-login effect calls
\* loadCloudData, the upload effect sets its timer, the realtime effect
\* subscribes the channel of the user.
SignIn(d, u) ==
    /\ session[d] # u
    /\ Len(loads[d]) < MaxLoads
    /\ used.signins < budget.signins
    /\ used' = [used EXCEPT !.signins = @ + 1]
    /\ session' = [session EXCEPT ![d] = u]
    /\ loads' = [loads EXCEPT ![d] = Append(@, NewLoad(u))]
    /\ timer' = [timer EXCEPT ![d] = Rearm(d, now, tasks[d], deletedTasks[d], u)]
    /\ channel' = [channel EXCEPT ![d] = Subscribed(d, u)]
    /\ events' = [events EXCEPT ![d] = 0]
    /\ hist' = [hist EXCEPT ![d].lastChange = now, ![d].burst = 0, ![d].sent = 0,
                            ![d].merged = FALSE, ![d].settled = FALSE, ![d].loaded = FALSE,
                            ![d].prev = session[d], ![d].failed = FALSE, ![d].retry = FALSE]
    /\ UNCHANGED <<mrg, mig, rel, node, budget, now, tasks, deletedTasks, lastConvergedHash, syncInProgress,
                   hasSynced, upserts, remote>>

\* onAuthStateChange delivering null: the cleanups clear the timer and remove
\* the channel.
SignOut(d) ==
    /\ session[d] # NoSession
    /\ session' = [session EXCEPT ![d] = NoSession]
    /\ timer' = [timer EXCEPT ![d] = NoTimer]
    /\ channel' = [channel EXCEPT ![d] = Subscribed(d, NoSession)]
    /\ events' = [events EXCEPT ![d] = 0]
    /\ hist' = [hist EXCEPT ![d].burst = 0, ![d].sent = 0, ![d].dropped = FALSE,
                            ![d].merged = FALSE, ![d].settled = FALSE, ![d].loaded = FALSE,
                            ![d].prev = session[d], ![d].failed = FALSE, ![d].retry = FALSE]
    /\ UNCHANGED <<mrg, mig, rel, node, budget, now, tasks, deletedTasks, lastConvergedHash, syncInProgress,
                   hasSynced, upserts, loads, remote, used>>

\* A timer callback that does not look at syncInProgressRef.
NeverBlocked(d) == FALSE

\* if (syncInProgressRef.current) return
UploadBlocked(d) == syncInProgress[d]

\* A timer callback without the comparison with the converged baseline.
AlwaysUnsaved(d) == FALSE

\* if (localHash === lastConvergedHashRef.current) return
NothingUnsaved(d) == Hash(timer[d].tasks, timer[d].deleted) = lastConvergedHash[d]

\* A timer callback without the empty-data safeguard.
NoSafeguard(d) == FALSE

\* if (tasks.length === 0 && deletedTasks.length === 0)
\*   if (!localStorage.getItem('eisenpower-has-synced')) return
EmptySafeguard(d) ==
    /\ timer[d].tasks = << >> /\ timer[d].deleted = << >>
    /\ ~hasSynced[d]

\* The upsert call of the timer callback, with localHash of its closure.
NewUpsert(d) ==
    [user |-> timer[d].user, tasks |-> timer[d].tasks, deleted |-> timer[d].deleted,
     hash |-> Hash(timer[d].tasks, timer[d].deleted), stage |-> "sent",
     synced |-> hasSynced[d]]

\* The debounce timer firing: the callback of setTimeout.
TimerFire(d) ==
    /\ timer[d].armed /\ now >= timer[d].due
    /\ timer' = [timer EXCEPT ![d] = NoTimer]
    /\ IF UploadBlocked(d)
       THEN /\ hist' = [hist EXCEPT ![d].dropped = TRUE]
            /\ UNCHANGED <<syncInProgress, upserts>>
       ELSE IF NothingUnsaved(d) \/ EmptySafeguard(d)
       THEN UNCHANGED <<syncInProgress, upserts, hist>>
       ELSE /\ syncInProgress' = [syncInProgress EXCEPT ![d] = TRUE]
            /\ upserts' = [upserts EXCEPT ![d] = Append(@, NewUpsert(d))]
            /\ hist' = [hist EXCEPT ![d].sent = @ + 1, ![d].failed = FALSE,
                                    ![d].retry = FALSE]
    /\ UNCHANGED <<mrg, mig, rel, node, budget, now, tasks, deletedTasks, session, lastConvergedHash, hasSynced,
                   loads, channel, events, remote, used>>

\* The remote store executing an upsert: the row of the user is replaced and
\* every channel filtered on the user gets a postgres_changes notification.
RemoteUpsert(d, i) ==
    /\ upserts[d][i].stage = "sent"
    /\ \A e \in AllDevices : upserts[d][i].user \in channel[e] => events[e] < MaxEvents
    /\ upserts' = [upserts EXCEPT ![d][i].stage = "ok"]
    /\ remote' = [remote EXCEPT ![upserts[d][i].user] =
                    Row(upserts[d][i].tasks, upserts[d][i].deleted)]
    /\ events' = [e \in AllDevices |->
                    IF upserts[d][i].user \in channel[e] THEN events[e] + 1 ELSE events[e]]
    /\ UNCHANGED <<mrg, mig, rel, node, budget, now, tasks, deletedTasks, session, lastConvergedHash,
                   syncInProgress, hasSynced, timer, loads, channel, hist, used>>

\* The upsert failing: an error result or a thrown exception.
RemoteUpsertFail(d, i) ==
    /\ upserts[d][i].stage = "sent"
    /\ used.fails < budget.fails
    /\ used' = [used EXCEPT !.fails = @ + 1]
    /\ upserts' = [upserts EXCEPT ![d][i].stage = "err"]
    /\ UNCHANGED <<mrg, mig, rel, node, budget, now, tasks, deletedTasks, session, lastConvergedHash,
                   syncInProgress, hasSynced, timer, loads, channel, events, remote, hist>>

\* The timer callback resuming after await: error branch, success branch, finally.
UpsertDone(d, i) ==
    /\ upserts[d][i].stage # "sent"
    /\ upserts' = [upserts EXCEPT ![d] = RemoveAt(@, i)]
    /\ IF upserts[d][i].stage = "ok"
       THEN /\ lastConvergedHash' = [lastConvergedHash EXCEPT ![d] = upserts[d][i].hash]
            /\ hasSynced' = [hasSynced EXCEPT ![d] = TRUE]
       ELSE UNCHANGED <<lastConvergedHash, hasSynced>>
    /\ syncInProgress' = [syncInProgress EXCEPT ![d] = FALSE]
    /\ hist' = [hist EXCEPT ![d].settled = TRUE,
                            ![d].failed = upserts[d][i].stage = "err"]
    /\ UNCHANGED <<mrg, mig, rel, node, budget, now, tasks, deletedTasks, session, timer, loads, channel, events,
                   remote, used>>

\* The realtime callback: loadCloudData() of the render that subscribed.
RealtimeEvent(d, u) ==
    /\ events[d] > 0
    /\ u \in channel[d]
    /\ Len(loads[d]) < MaxLoads
    /\ events' = [events EXCEPT ![d] = @ - 1]
    /\ loads' = [loads EXCEPT ![d] = Append(@, [NewLoad(u) EXCEPT !.realtime = TRUE])]
    /\ UNCHANGED <<mrg, mig, rel, node, budget, now, tasks, deletedTasks, session, lastConvergedHash,
                   syncInProgress, hasSynced, timer, upserts, channel, remote, hist, used>>

\* The remote store answering the select of loadCloudData.
RemoteSelect(d, i) ==
    /\ loads[d][i].stage = "sent"
    /\ loads' = [loads EXCEPT ![d][i].stage = "got",
                              ![d][i].data = remote[loads[d][i].user]]
    /\ UNCHANGED <<mrg, mig, rel, node, budget, now, tasks, deletedTasks, session, lastConvergedHash,
                   syncInProgress, hasSynced, timer, upserts, channel, events, remote,
                   hist, used>>

\* The select failing: an error result or a thrown exception.
RemoteSelectFail(d, i) ==
    /\ loads[d][i].stage = "sent"
    /\ used.fails < budget.fails
    /\ used' = [used EXCEPT !.fails = @ + 1]
    /\ loads' = [loads EXCEPT ![d][i].stage = "err"]
    /\ UNCHANGED <<mrg, mig, rel, node, budget, now, tasks, deletedTasks, session, lastConvergedHash,
                   syncInProgress, hasSynced, timer, upserts, channel, events, remote, hist>>

\* loadCloudData resuming after await: return on error, else merge the fetched
\* row with tasksRef / deletedTasksRef, set both states and the baseline.
LoadDone(d, i) ==
    /\ loads[d][i].stage # "sent"
    /\ loads' = [loads EXCEPT ![d] = RemoveAt(@, i)]
    /\ IF loads[d][i].stage = "err"
       THEN UNCHANGED <<tasks, deletedTasks, timer, lastConvergedHash, hist>>
       ELSE LET m == Merge(tasks[d], deletedTasks[d], loads[d][i].data)
            IN /\ SetState(d, now, m.tasks, m.deleted)
               /\ lastConvergedHash' = [lastConvergedHash EXCEPT ![d] = m.hash]
               /\ NoteChange(d, now, IF loads[d][i].user # session[d] THEN "stale"
                                       ELSE IF loads[d][i].realtime THEN "realtime"
                                       ELSE "login",
                             hist[d].offline)
    /\ UNCHANGED <<mrg, mig, rel, node, budget, now, session, syncInProgress, hasSynced, upserts, channel,
                   events, remote, used>>

\* Time passing up to the next instant a timer is due.  A timer that is due
\* fires before the clock moves on.
Tick ==
    /\ used.ticks < budget.ticks
    /\ ArmedDues # {}
    /\ \A due \in ArmedDues : due > now
    /\ now' = CHOOSE t \in ArmedDues : \A due \in ArmedDues : t <= due
    /\ used' = [used EXCEPT !.ticks = @ + 1]
    /\ UNCHANGED <<mrg, mig, rel, node, budget, tasks, deletedTasks, session, lastConvergedHash, syncInProgress,
                   hasSynced, timer, upserts, loads, channel, events, remote, hist>>

\* A sweep that removes nothing.
KeepAll(list, t) == list

\* The auto-purge filter at clock reading t: a tombstone stays when
\* new Date(task.deletedAt).getTime() > t - 24 h.  deletedAt is written by
\* toISOString(), which keeps the millisecond, so getTime() gives it back; a
\* missing deletedAt parses to NaN, and NaN > x is false.
Purged(list, t) ==
    SelectSeq(list, LAMBDA task : task.deletedAt # 0
                                  /\ task.deletedAt > t - TwentyFourHours)

\* The ids of the tombstones deleted more than 24 hours before t.
Expired(list, t) ==
    {list[i].id : i \in {j \in 1..Len(list) : list[j].deletedAt # 0
                                              /\ list[j].deletedAt < t - TwentyFourHours}}

\* The App of a signed-out, idle device mounting (a page load): state and
\* refs are initialised, tasks and deletedTasks from localStorage, and the
\* auto-purge effect sweeps the recycle bin once.  Two page loads do not fall
\* in the same millisecond.
Mount(d) ==
    /\ session[d] = NoSession /\ upserts[d] = << >> /\ loads[d] = << >>
    /\ hist[d].sweptAt # now
    /\ deletedTasks' = [deletedTasks EXCEPT ![d] = Purged(@, now)]
    /\ lastConvergedHash' = [lastConvergedHash EXCEPT ![d] = NoHash]
    /\ syncInProgress' = [syncInProgress EXCEPT ![d] = FALSE]
    /\ hist' = [hist EXCEPT ![d].sweptAt = now,
                            ![d].expired = @ \cup Expired(deletedTasks[d], now),
                            ![d].removed = @ \cup (Ids(deletedTasks[d])
                                                     \ Ids(Purged(deletedTasks[d], now)))]
    /\ UNCHANGED <<mrg, mig, rel, node, budget, now, tasks, session, hasSynced, timer, upserts,
                   loads, channel, events, remote, used>>

\* Stretches of time in which nothing happens.
Waits == {1, TwentyFourHours - 1}

\* Time passing while no timer is pending.
Wait(dt) ==
    /\ used.ticks < budget.ticks
    /\ ArmedDues = {}
    /\ now' = now + dt
    /\ used' = [used EXCEPT !.ticks = @ + 1]
    /\ UNCHANGED <<mrg, mig, rel, node, budget, tasks, deletedTasks, session, lastConvergedHash,
                   syncInProgress, hasSynced, timer, upserts, loads, channel, events,
                   remote, hist>>

\* The recycle bin of a signed-out device: deleting, restoring by id (also an
\* id that has no tombstone), page loads and time passing.
BinNext(d) ==
    \/ \E t \in Readings, id \in Ids(tasks[d]) : deleteTask(d, t, id)
    \/ \E t \in Readings, id \in Ids(DemoTasks) : restoreTask(d, t, id)
    \/ Mount(d)
    \/ \E dt \in Waits : Wait(dt)

\* The user's mutations of the record sets.
UserNext(d) ==
    \/ \E t \in Readings, text \in NewTexts : handleCreateTask(d, t, text)
    \/ \E t \in Readings, id \in Ids(tasks[d]), text \in EditTexts : editTask(d, t, id, text)
    \/ \E t \in Readings, id \in Ids(tasks[d]) : deleteTask(d, t, id)
    \/ \E t \in Readings, id \in Ids(deletedTasks[d]) : restoreTask(d, t, id)
    \/ \E t \in Readings, id \in Ids(deletedTasks[d]) : permanentlyDeleteTask(d, t, id)

\* The sync engine and the remote store, every remote call succeeding.
SyncNext(d) ==
    \/ \E u \in budget.users : SignIn(d, u)
    \/ TimerFire(d)
    \/ \E i \in 1..Len(upserts[d]) : RemoteUpsert(d, i)
    \/ \E i \in 1..Len(upserts[d]) : UpsertDone(d, i)
    \/ \E u \in AllUsers : RealtimeEvent(d, u)
    \/ \E i \in 1..Len(loads[d]) : RemoteSelect(d, i)
    \/ \E i \in 1..Len(loads[d]) : LoadDone(d, i)

\* Remote calls failing.
FaultNext(d) ==
    \/ \E i \in 1..Len(upserts[d]) : RemoteUpsertFail(d, i)
    \/ \E i \in 1..Len(loads[d]) : RemoteSelectFail(d, i)

\* Everything that can happen on or for device d.
DeviceNext(d) ==
    \/ UserNext(d)
    \/ \E t \in Readings, data \in BackupFiles : handleRestore(d, t, data)
    \/ SyncNext(d)
    \/ FaultNext(d)
    \/ SignOut(d)

\* ------------------------------------------------------------ merge harness
sysvars == <<now, tasks, deletedTasks, session, lastConvergedHash, syncInProgress,
             hasSynced, timer, upserts, loads, channel, events, remote, hist, used,
             budget>>

vars == <<mrg, mig, rel, node, sysvars>>

\* Records a side can hold: the text names the side, so a copy tells where it
\* came from.
SideRecs(txt, del) ==
    {Rec(i, txt, u, del) : i \in MergeIds, u \in 0..MaxVer}

\* Arrays without repeated ids, of length at most n, over a set of records.
Lists(recs, n) ==
    {l \in UNION {[1..k -> recs] : k \in 0..n} :
        \A i, j \in 1..Len(l) : i # j => l[i].id # l[j].id}

NoMerge == [tasks |-> << >>, deleted |-> << >>, hash |-> <<>>]

MergeInit ==
    /\ SysInit({[d \in AllDevices |-> << >>]}, NoBudget)
    /\ mig = NoMig /\ rel = NoRel /\ node = NoNode
    /\ \E lt \in Lists(SideRecs("foo", 0), 2), ld \in Lists(SideRecs("foo", 1), 1),
       ct \in Lists(SideRecs("bar", 0), 2), cd \in Lists(SideRecs("bar", 1), 1),
       row \in BOOLEAN :
        mrg = [localTasks |-> lt, localDeleted |-> ld,
               cloud |-> IF row THEN Row(ct, cd) ELSE NoRow,
               runs |-> 0, first |-> NoMerge, second |-> NoMerge]

\* loadCloudData against the fetched row.
RunMerge ==
    /\ mrg.runs = 0
    /\ mrg' = [mrg EXCEPT !.runs = 1,
                 !.first = Merge(mrg.localTasks, mrg.localDeleted, mrg.cloud)]
    /\ UNCHANGED <<mig, rel, node, sysvars>>

\* loadCloudData again: the state it set is the local state, the row is the same.
RunMergeAgain ==
    /\ mrg.runs = 1
    /\ mrg' = [mrg EXCEPT !.runs = 2,
                 !.second = Merge(mrg.first.tasks, mrg.first.deleted, mrg.cloud)]
    /\ UNCHANGED <<mig, rel, node, sysvars>>

MergeNext == RunMerge \/ RunMergeAgain

SpecMerge == MergeInit /\ [][MergeNext]_vars

\* ------------------------------------------------------------ specifications
MrgIdle == mrg = [localTasks |-> << >>, localDeleted |-> << >>, cloud |-> NoRow,
                  runs |-> 0, first |-> NoMerge, second |-> NoMerge]

\* Only the sync engine runs: the harnesses stay at rest.
HarnessIdle == MrgIdle /\ mig = NoMig /\ rel = NoRel /\ node = NoNode

\* -------------------------------------------------------- migration harness
\* The local tasks handed to the migration, and the longest array of them.
MigTexts == {"a", "b", "c"}
MigTasks == {Rec(1, "a", 0, 0), Rec(2, "b", 0, 0), Rec(3, "c", 0, 0)}
MaxMig == 3

\* The result object has no count.
NoCount == -1

\* The field order of the result is that of the source: success, count, error.
NoResult == [success |-> FALSE, count |-> NoCount, error |-> "none"]

\* A call of migrateTasksToRelational(tasks, session) about to be made; the
\* 'tasks' table rejects the rows whose text is in rejects.
MigInit ==
    /\ SysInit({[d \in AllDevices |-> << >>]}, NoBudget)
    /\ MrgIdle /\ rel = NoRel /\ node = NoNode
    /\ \E ses \in {NoSession} \cup AllUsers, ts \in Lists(MigTasks, MaxMig),
         rj \in SUBSET MigTexts :
        mig = [stage |-> "ready", session |-> ses, tasks |-> ts, rejects |-> rj,
               calls |-> 0, batch |-> << >>, table |-> {}, result |-> NoResult]

\* tasks.map(t => ({user_id: session.user.id, text: t.text, ...}))
FormattedTasks(ts, ses) == [i \in 1..Len(ts) |-> [user_id |-> ses, text |-> ts[i].text]]

\* migrateTasksToRelational up to its await: the two early returns, else one
\* insert call with all the rows.
Migrate ==
    /\ mig.stage = "ready"
    /\ IF mig.session = NoSession
       THEN mig' = [mig EXCEPT !.stage = "done",
                      !.result = [success |-> FALSE, count |-> NoCount,
                                  error |-> "No authenticated user"]]
       ELSE IF mig.tasks = << >>
       THEN mig' = [mig EXCEPT !.stage = "done",
                      !.result = [success |-> TRUE, count |-> 0, error |-> "none"]]
       ELSE mig' = [mig EXCEPT !.stage = "sent", !.calls = @ + 1,
                      !.batch = FormattedTasks(mig.tasks, mig.session)]
    /\ UNCHANGED <<mrg, rel, node, sysvars>>

\* The rows of a batch the table accepts.
Accepted(batch, rejects) == {batch[i] : i \in {j \in 1..Len(batch) : batch[j].text \notin rejects}}

\* The remote store executing insert(rows).select(): one statement, so a
\* rejected row fails the statement and no row is stored.
RemoteInsert ==
    /\ mig.stage = "sent"
    /\ IF Accepted(mig.batch, mig.rejects) = Range(mig.batch)
       THEN mig' = [mig EXCEPT !.stage = "data", !.table = @ \cup Range(mig.batch)]
       ELSE mig' = [mig EXCEPT !.stage = "error"]
    /\ UNCHANGED <<mrg, rel, node, sysvars>>

\* The insert call throwing.
RemoteInsertThrows ==
    /\ mig.stage = "sent"
    /\ mig' = [mig EXCEPT !.stage = "threw"]
    /\ UNCHANGED <<mrg, rel, node, sysvars>>

\* migrateTasksToRelational after its await.
MigrateDone ==
    /\ mig.stage \in {"data", "error", "threw"}
    /\ mig' = [mig EXCEPT !.stage = "done",
                  !.result = IF mig.stage = "data"
                             THEN [success |-> TRUE, count |-> Len(mig.batch), error |-> "none"]
                             ELSE IF mig.stage = "error"
                             THEN [success |-> FALSE, count |-> NoCount, error |-> "insert"]
                             ELSE [success |-> FALSE, count |-> NoCount, error |-> "exception"]]
    /\ UNCHANGED <<mrg, rel, node, sysvars>>

MigNext == Migrate \/ RemoteInsert \/ RemoteInsertThrows \/ MigrateDone

SpecMig == MigInit /\ [][MigNext]_vars

\* ----------------------------------------------------------- relational App
\* Realtime events handled in a run.
MaxRelEvents == 2

\* A field the payload does not carry.
Undefined == "undefined"

\* Tasks of the relational App and rows of the 'tasks' table: the local text
\* is "foo", the text of a row is "bar" or missing.
RelTasks == {[id |-> i, text |-> "foo", updatedAt |-> u] : i \in MergeIds, u \in 1..MaxVer}
RelRows == {[id |-> i, text |-> x, updated_at |-> u] :
              i \in MergeIds, x \in {"bar", Undefined}, u \in 1..MaxVer}

NoEvent == [eventType |-> "none", row |-> [id |-> 0, text |-> Undefined, updated_at |-> 0]]

\* The relational App signed in and subscribed, with its local tasks.
RelInit ==
    /\ SysInit({[d \in AllDevices |-> << >>]}, NoBudget)
    /\ MrgIdle /\ mig = NoMig /\ node = NoNode
    /\ \E ts \in Lists(RelTasks, 2) :
        rel = [stage |-> "subscribed", tasks |-> ts, handled |-> 0, before |-> ts,
               last |-> NoEvent]

\* mapTaskFromDb: updatedAt is new Date(row.updated_at).getTime(), the
\* millisecond the ISO string of the row carries.
mapTaskFromDb(row) == [id |-> row.id, text |-> row.text, updatedAt |-> row.updated_at]

\* The UPDATE branch for one local task t: {...t, ...mapped, text: ...}.
SmartMerge(t, newRow) ==
    LET mapped == mapTaskFromDb(newRow)
    IN [id |-> mapped.id,
        text |-> IF mapped.text # Undefined THEN mapped.text ELSE t.text,
        updatedAt |-> mapped.updatedAt]

\* The postgres_changes callback of the realtime subscription effect.
Handled(eventType, row) ==
    [rel EXCEPT !.handled = @ + 1, !.before = rel.tasks,
                !.last = [eventType |-> eventType, row |-> row]]

OnInsert(newRow) ==
    /\ rel.stage = "subscribed" /\ rel.handled < MaxRelEvents
    /\ rel' = [Handled("INSERT", newRow) EXCEPT
                 !.tasks = Append(rel.tasks, mapTaskFromDb(newRow))]
    /\ UNCHANGED <<mrg, mig, node, sysvars>>

OnUpdate(newRow) ==
    /\ rel.stage = "subscribed" /\ rel.handled < MaxRelEvents
    /\ rel' = [Handled("UPDATE", newRow) EXCEPT
                 !.tasks = [i \in 1..Len(rel.tasks) |->
                              IF rel.tasks[i].id = newRow.id
                              THEN SmartMerge(rel.tasks[i], newRow)
                              ELSE rel.tasks[i]]]
    /\ UNCHANGED <<mrg, mig, node, sysvars>>

OnDelete(oldRow) ==
    /\ rel.stage = "subscribed" /\ rel.handled < MaxRelEvents
    /\ rel' = [Handled("DELETE", oldRow) EXCEPT
                 !.tasks = SelectSeq(rel.tasks, LAMBDA t : t.id # oldRow.id)]
    /\ UNCHANGED <<mrg, mig, node, sysvars>>

RelNext ==
    \/ \E row \in RelRows : OnInsert(row)
    \/ \E row \in RelRows : OnUpdate(row)
    \/ \E row \in RelRows : OnDelete(row)

SpecRel == RelInit /\ [][RelNext]_vars

\* ----------------------------------------- relational App, with its table
\* User actions in a run of the relational App.
MaxRelOps == 2

\* The first id the 'tasks' table generates; the ids it generates are not
\* clock readings.
FirstUuid == 101

\* The row another installation of the owner has stored before the run.
StoredRow == [id |-> FirstUuid, text |-> "bar", updated_at |-> 1]

\* The relational App mounted without a session: the table is empty or holds
\* the stored row, and the local tasks are empty or the copy of that row.
RelAppInit ==
    /\ SysInit({[d \in AllDevices |-> << >>]}, NoBudget)
    /\ MrgIdle /\ mig = NoMig /\ node = NoNode
    /\ \E stored \in BOOLEAN, copied \in BOOLEAN :
         LET ts == IF stored /\ copied THEN <<mapTaskFromDb(StoredRow)>> ELSE << >>
         IN rel = [stage |-> "signedout", tasks |-> ts, deletedTasks |-> << >>,
                   table |-> IF stored THEN <<StoredRow>> ELSE << >>,
                   uuids |-> IF stored THEN 1 ELSE 0,
                   fetch |-> "none", fetched |-> << >>, calls |-> << >>,
                   sent |-> << >>, handled |-> 0, before |-> ts, last |-> NoEvent,
                   clock |-> Epoch, ops |-> 0]

\* A user action of the relational App at the next clock reading.
RelOp == rel.ops < MaxRelOps

RelSignedIn == rel.stage = "subscribed"

\* The calls a handler makes only with a session.
WithSession(calls) == IF RelSignedIn THEN calls ELSE << >>

\* onAuthStateChange delivering a session: the realtime effect calls
\* fetchRemoteTasks and subscribes the channel.
RelSignIn ==
    /\ rel.stage = "signedout"
    /\ rel' = [rel EXCEPT !.stage = "subscribed", !.fetch = "sent"]
    /\ UNCHANGED <<mrg, mig, node, sysvars>>

\* The remote store answering the select of fetchRemoteTasks.
RelRemoteSelect ==
    /\ rel.fetch = "sent"
    /\ rel' = [rel EXCEPT !.fetch = "got", !.fetched = rel.table]
    /\ UNCHANGED <<mrg, mig, node, sysvars>>

\* The select returning an error.
RelRemoteSelectFail ==
    /\ rel.fetch = "sent"
    /\ rel' = [rel EXCEPT !.fetch = "err"]
    /\ UNCHANGED <<mrg, mig, node, sysvars>>

\* fetchRemoteTasks after its await, on a result without error: the mapped
\* rows replace the local tasks unless there are none.
Fetched(ts, rows) ==
    IF Len(rows) > 0 THEN [i \in 1..Len(rows) |-> mapTaskFromDb(rows[i])] ELSE ts

fetchRemoteTasks ==
    /\ rel.fetch \in {"got", "err"}
    /\ rel' = [rel EXCEPT !.fetch = "none", !.fetched = << >>,
                 !.tasks = IF rel.fetch = "got" THEN Fetched(rel.tasks, rel.fetched)
                           ELSE rel.tasks]
    /\ UNCHANGED <<mrg, mig, node, sysvars>>

\* handleCreateTask of the relational App up to its await: the optimistic
\* update with the clock reading as id, and with a session the insert call.
RelCreateTask(text) ==
    /\ RelOp
    /\ LET t == rel.clock + 1
       IN rel' = [rel EXCEPT
                    !.ops = @ + 1, !.clock = t,
                    !.tasks = Append(@, [id |-> t, text |-> text, updatedAt |-> t]),
                    !.calls = @ \o WithSession(<<[kind |-> "create", id |-> t,
                                                  stage |-> "sent",
                                                  row |-> [id |-> 0, text |-> text,
                                                           updated_at |-> t]]>>)]
    /\ UNCHANGED <<mrg, mig, node, sysvars>>

\* deleteTask of the relational App: the task goes to the local recycle bin,
\* and with a session the row is deleted.
RelDeleteTask(id) ==
    /\ RelOp
    /\ HasId(rel.tasks, id)
    /\ LET t == rel.clock + 1
       IN rel' = [rel EXCEPT
                    !.ops = @ + 1, !.clock = t,
                    !.deletedTasks = Append(@, [Find(rel.tasks, id) EXCEPT !.updatedAt = t]),
                    !.tasks = SelectSeq(@, LAMBDA x : x.id # id),
                    !.calls = @ \o WithSession(<<[kind |-> "delete", id |-> id,
                                                  stage |-> "sent",
                                                  row |-> [id |-> id, text |-> Undefined,
                                                           updated_at |-> 0]]>>)]
    /\ UNCHANGED <<mrg, mig, node, sysvars>>

\* restoreTask of the relational App up to its await: the task goes back to
\* the local tasks, and with a session its row is inserted with the same id.
RelRestoreTask(id) ==
    /\ RelOp
    /\ HasId(rel.deletedTasks, id)
    /\ LET t == rel.clock + 1
           restored == [Find(rel.deletedTasks, id) EXCEPT !.updatedAt = t]
       IN rel' = [rel EXCEPT
                    !.ops = @ + 1, !.clock = t,
                    !.tasks = Append(@, restored),
                    !.deletedTasks = SelectSeq(@, LAMBDA x : x.id # id),
                    !.calls = @ \o WithSession(<<[kind |-> "restore", id |-> id,
                                                  stage |-> "sent",
                                                  row |-> [id |-> id, text |-> restored.text,
                                                           updated_at |-> t]]>>)]
    /\ UNCHANGED <<mrg, mig, node, sysvars>>

\* The postgres_changes notification of a change, for the subscribed channel.
Notified(eventType, row) ==
    IF RelSignedIn THEN <<[eventType |-> eventType, row |-> row]>> ELSE << >>

\* The table executing the insert of handleCreateTask: it generates the id.
RelRemoteCreate(i) ==
    /\ rel.calls[i].kind = "create" /\ rel.calls[i].stage = "sent"
    /\ LET row == [rel.calls[i].row EXCEPT !.id = FirstUuid + rel.uuids]
       IN rel' = [rel EXCEPT !.uuids = @ + 1,
                              !.table = Append(@, row),
                              !.sent = @ \o Notified("INSERT", row),
                              !.calls[i].stage = "data",
                              !.calls[i].row = row]
    /\ UNCHANGED <<mrg, mig, node, sysvars>>

\* The insert of handleCreateTask returning no data.
RelRemoteCreateFail(i) ==
    /\ rel.calls[i].kind = "create" /\ rel.calls[i].stage = "sent"
    /\ rel' = [rel EXCEPT !.calls[i].stage = "err"]
    /\ UNCHANGED <<mrg, mig, node, sysvars>>

\* handleCreateTask after its await: with data, the task with the temporary
\* id is replaced by the mapped row.
RelCreateDone(i) ==
    /\ rel.calls[i].kind = "create" /\ rel.calls[i].stage # "sent"
    /\ rel' = [rel EXCEPT
                 !.calls = RemoveAt(@, i),
                 !.tasks = IF rel.calls[i].stage = "data"
                           THEN [k \in 1..Len(rel.tasks) |->
                                   IF rel.tasks[k].id = rel.calls[i].id
                                   THEN mapTaskFromDb(rel.calls[i].row)
                                   ELSE rel.tasks[k]]
                           ELSE rel.tasks]
    /\ UNCHANGED <<mrg, mig, node, sysvars>>

\* The table executing the insert of restoreTask: the id is the primary key,
\* so a row with an id the table holds is rejected.  The handler does nothing
\* with the result.
RelRemoteRestore(i) ==
    /\ rel.calls[i].kind = "restore"
    /\ IF HasId(rel.table, rel.calls[i].id)
       THEN rel' = [rel EXCEPT !.calls = RemoveAt(@, i)]
       ELSE rel' = [rel EXCEPT !.calls = RemoveAt(@, i),
                                !.table = Append(@, rel.calls[i].row),
                                !.sent = @ \o Notified("INSERT", rel.calls[i].row)]
    /\ UNCHANGED <<mrg, mig, node, sysvars>>

\* The table executing the delete of deleteTask.  The handler does nothing
\* with the result.
RelRemoteDelete(i) ==
    /\ rel.calls[i].kind = "delete"
    /\ IF HasId(rel.table, rel.calls[i].id)
       THEN rel' = [rel EXCEPT !.calls = RemoveAt(@, i),
                                !.table = SelectSeq(@, LAMBDA r : r.id # rel.calls[i].id),
                                !.sent = @ \o Notified("DELETE", rel.calls[i].row)]
       ELSE rel' = [rel EXCEPT !.calls = RemoveAt(@, i)]
    /\ UNCHANGED <<mrg, mig, node, sysvars>>

\* The next notification reaching the postgres_changes callback.
NextEvent == rel.sent[rel.handled + 1]

RelDeliverInsert ==
    /\ rel.handled < Len(rel.sent) /\ NextEvent.eventType = "INSERT"
    /\ OnInsert(NextEvent.row)

RelDeliverDelete ==
    /\ rel.handled < Len(rel.sent) /\ NextEvent.eventType = "DELETE"
    /\ OnDelete(NextEvent.row)

RelAppNext ==
    \/ RelSignIn
    \/ RelRemoteSelect
    \/ RelRemoteSelectFail
    \/ fetchRemoteTasks
    \/ \E text \in NewTexts : RelCreateTask(text)
    \/ \E id \in Ids(rel.tasks) : RelDeleteTask(id)
    \/ \E id \in Ids(rel.deletedTasks) : RelRestoreTask(id)
    \/ \E i \in 1..Len(rel.calls) : RelRemoteCreate(i)
    \/ \E i \in 1..Len(rel.calls) : RelRemoteCreateFail(i)
    \/ \E i \in 1..Len(rel.calls) : RelCreateDone(i)
    \/ \E i \in 1..Len(rel.calls) : RelRemoteRestore(i)
    \/ \E i \in 1..Len(rel.calls) : RelRemoteDelete(i)
    \/ RelDeliverInsert
    \/ RelDeliverDelete

SpecRelApp == RelAppInit /\ [][RelAppNext]_vars


\* -------------------------------------------------- TaskNode drag gesture
\* Bounds of the drag runs: gestures, pointer-move events per gesture and
\* stretches of time.
MaxGestures == 2
MaxMoves == 2
MaxDragWaits == 2

\* if (duration < 250 && distance < 6)
ClickMs == 250
ClickPx == 6

\* The container is 100 px wide and high, so one pixel is one percent.
RectSize == 100

\* Positions of the pointer (clientX, clientY) and stretches of time (ms).
Pointers == {<<50, 50>>, <<53, 50>>, <<120, 20>>}
DragWaits == {100, 300}

\* dragPosition when no drag is going on.
NoPosition == [x |-> -1, y |-> -1]

NoDragRef == [startX |-> 0, startY |-> 0, initialTaskX |-> 0, initialTaskY |-> 0,
              startTime |-> 0, totalDist2 |-> 0]

\* The board of the relational App with one task and one TaskNode for it,
\* with or without a session.  node.calls lists the calls the node made to
\* its callbacks during the gesture.
DragInit ==
    /\ SysInit({[d \in AllDevices |-> << >>]}, NoBudget)
    /\ MrgIdle /\ mig = NoMig
    /\ \E ses \in BOOLEAN :
         rel = [stage |-> "board", session |-> ses,
                tasks |-> <<[id |-> FirstUuid, x |-> 50, y |-> 50, updatedAt |-> 1]>>,
                updates |-> << >>]
    /\ node = [stage |-> "mounted", isDragging |-> FALSE, dragPosition |-> NoPosition,
               dragRef |-> NoDragRef, clock |-> Epoch, gestures |-> 0, moves |-> 0,
               waits |-> 0, calls |-> << >>, click |-> FALSE]

\* The task prop of the node.
NodeTask == rel.tasks[1]

\* Math.max(0, Math.min(100, v))
Clamp(v) == IF v < 0 THEN 0 ELSE IF v > 100 THEN 100 ELSE v

\* handleMouseDown on the node (mousedown with the left button, touchstart).
handleMouseDown(cx, cy) ==
    /\ node.stage = "mounted" /\ ~node.isDragging
    /\ node.gestures < MaxGestures
    /\ node' = [node EXCEPT
                  !.isDragging = TRUE,
                  !.dragPosition = [x |-> NodeTask.x, y |-> NodeTask.y],
                  !.dragRef = [startX |-> cx, startY |-> cy,
                               initialTaskX |-> NodeTask.x, initialTaskY |-> NodeTask.y,
                               startTime |-> node.clock, totalDist2 |-> 0],
                  !.gestures = @ + 1, !.moves = 0, !.calls = << >>, !.click = FALSE]
    /\ UNCHANGED <<mrg, mig, rel, sysvars>>

\* handleMouseMove / handleTouchMove: the listeners are attached while
\* isDragging.  totalDist is kept squared: sqrt(a) < 6 exactly when a < 36.
handleMouseMove(cx, cy) ==
    /\ node.stage = "mounted" /\ node.isDragging
    /\ node.moves < MaxMoves
    /\ LET deltaX == cx - node.dragRef.startX
           deltaY == cy - node.dragRef.startY
           newX == node.dragRef.initialTaskX + (deltaX * 100) \div RectSize
           newY == node.dragRef.initialTaskY - (deltaY * 100) \div RectSize
       IN node' = [node EXCEPT
                     !.dragRef.totalDist2 = deltaX * deltaX + deltaY * deltaY,
                     !.dragPosition = [x |-> Clamp(newX), y |-> Clamp(newY)],
                     !.moves = @ + 1]
    /\ UNCHANGED <<mrg, mig, rel, sysvars>>

\* moveTask: the position and a new updatedAt for the task with the id.
moveTask(ts, id, x, y, t) ==
    [i \in 1..Len(ts) |-> IF ts[i].id = id
                          THEN [ts[i] EXCEPT !.x = x, !.y = y, !.updatedAt = t]
                          ELSE ts[i]]

\* handleMoveEnd: with a session, one update of the row's position.
handleMoveEnd(updates, ses, id, x, y) ==
    IF ses THEN Append(updates, [id |-> id, x_position |-> x, y_position |-> y])
    ELSE updates

\* One run of the function handleMouseUp passes to setDragPosition, on the
\* board b: a click expands the task, anything else calls onMove (moveTask)
\* and onMoveEnd (handleMoveEnd) with the position in prev.
RECURSIVE Released(_, _, _)
Released(b, prev, n) ==
    IF n = 0 THEN b
    ELSE Released([b EXCEPT !.tasks = moveTask(@, NodeTask.id, prev.x, prev.y, node.clock),
                            !.updates = handleMoveEnd(@, b.session, NodeTask.id,
                                                      prev.x, prev.y)],
                  prev, n - 1)

\* The calls of those runs, in order.
RECURSIVE ReleaseCalls(_, _)
ReleaseCalls(prev, n) ==
    IF n = 0 THEN << >>
    ELSE <<[fn |-> "onMove", x |-> prev.x, y |-> prev.y],
           [fn |-> "onMoveEnd", x |-> prev.x, y |-> prev.y]>>
           \o ReleaseCalls(prev, n - 1)

\* How many times React runs a function passed to a state setter: once, or
\* twice when it replays the update (every update under StrictMode, and an
\* update queued behind one of lower priority that the render skipped).
Invocations == {1, 2}

\* duration < 250 && distance < 6
IsClick == /\ node.clock - node.dragRef.startTime < ClickMs
           /\ node.dragRef.totalDist2 < ClickPx * ClickPx

\* handleMouseUp (mouseup, touchend): setIsDragging(false), and the function
\* passed to setDragPosition, which classifies the release, calls the
\* callbacks and returns null.
handleMouseUp(n) ==
    /\ node.stage = "mounted" /\ node.isDragging
    /\ IF IsClick
       THEN /\ node' = [node EXCEPT !.isDragging = FALSE, !.dragPosition = NoPosition,
                                    !.click = TRUE,
                                    !.calls = [k \in 1..n |->
                                                 [fn |-> "onExpand", x |-> 0, y |-> 0]]]
            /\ rel' = rel
       ELSE /\ node' = [node EXCEPT !.isDragging = FALSE, !.dragPosition = NoPosition,
                                    !.click = FALSE,
                                    !.calls = ReleaseCalls(node.dragPosition, n)]
            /\ rel' = Released(rel, node.dragPosition, n)
    /\ UNCHANGED <<mrg, mig, sysvars>>

\* Time passing between two pointer events.
DragWait(dt) ==
    /\ node.stage = "mounted" /\ node.waits < MaxDragWaits
    /\ node' = [node EXCEPT !.clock = @ + dt, !.waits = @ + 1]
    /\ UNCHANGED <<mrg, mig, rel, sysvars>>

DragNext ==
    \/ \E p \in Pointers : handleMouseDown(p[1], p[2])
    \/ \E p \in Pointers : handleMouseMove(p[1], p[2])
    \/ \E n \in Invocations : handleMouseUp(n)
    \/ \E dt \in DragWaits : DragWait(dt)

SpecDrag == DragInit /\ [][DragNext]_vars

\* One device, "d1": a fresh installation or an emptied one.
Init ==
    /\ SysInit({[d \in AllDevices |-> IF d = "d1" THEN DemoTasks ELSE << >>],
                [d \in AllDevices |-> << >>]},
               [ops |-> MaxOps, ticks |-> MaxTicks, fails |-> MaxFails,
                signins |-> MaxSignIns, users |-> {"u1"}])
    /\ HarnessIdle

Next == DeviceNext("d1") \/ Tick

Spec == Init /\ [][Next]_vars

\* Creating, editing and deleting on device d.
EditNext(d) ==
    \/ \E t \in Readings, text \in NewTexts : handleCreateTask(d, t, text)
    \/ \E t \in Readings, id \in Ids(tasks[d]), text \in EditTexts : editTask(d, t, id, text)
    \/ \E t \in Readings, id \in Ids(tasks[d]) : deleteTask(d, t, id)

\* Two devices of the same owner, both fresh installations, the user working
\* on "d1"; every remote call succeeds and nobody signs out.
NextTwo == EditNext("d1") \/ (\E d \in AllDevices : SyncNext(d)) \/ Tick

InitTwo ==
    /\ SysInit({[d \in AllDevices |-> DemoTasks]},
               [ops |-> TwoOps, ticks |-> TwoTicks, fails |-> 0,
                signins |-> Cardinality(AllDevices), users |-> {"u1"}])
    /\ HarnessIdle

SpecTwo == InitTwo /\ [][NextTwo]_vars

\* One device with the demo tasks; the remote row was uploaded by another
\* installation of the owner, whose clock is ahead of this device's: there,
\* editTask gave record 1 the text "bar" and the updatedAt it read.
InitAhead ==
    /\ SysInitWith({[d \in AllDevices |-> IF d = "d1" THEN DemoTasks ELSE << >>]},
                   [ops |-> AheadOps, ticks |-> AheadTicks, fails |-> 0, signins |-> 1,
                    users |-> {"u1"}],
                   [u \in AllUsers |->
                      Row(<<Rec(1, "bar", Epoch + Ahead, 0), DemoTasks[2]>>, << >>)])
    /\ HarnessIdle

NextAhead == UserNext("d1") \/ SyncNext("d1") \/ Tick

SpecAhead == InitAhead /\ [][NextAhead]_vars

\* One device and two accounts: signing in, signing out and signing in as
\* the other user while signed in.
InitAuth ==
    /\ SysInit({[d \in AllDevices |-> IF d = "d1" THEN DemoTasks ELSE << >>]},
               [ops |-> 0, ticks |-> AuthTicks, fails |-> 0, signins |-> AuthSignIns,
                users |-> AllUsers])
    /\ HarnessIdle

NextAuth == SyncNext("d1") \/ SignOut("d1") \/ Tick

SpecAuth == InitAuth /\ [][NextAuth]_vars

\* One device and two accounts, the user working on the device: the first
\* user signs in, and later the second one does, after a sign-out or not.
InitLeak ==
    /\ SysInit({[d \in AllDevices |-> IF d = "d1" THEN DemoTasks ELSE << >>]},
               [ops |-> LeakOps, ticks |-> LeakTicks, fails |-> 0, signins |-> LeakSignIns,
                users |-> AllUsers])
    /\ HarnessIdle

NextLeak == EditNext("d1") \/ SyncNext("d1") \/ SignOut("d1") \/ Tick

SpecLeak == InitLeak /\ [][NextLeak]_vars

\* One signed-out device with the demo tasks and its recycle bin.
InitPurge ==
    /\ SysInit({[d \in AllDevices |-> IF d = "d1" THEN DemoTasks ELSE << >>]},
               [ops |-> PurgeOps, ticks |-> PurgeWaits, fails |-> 0, signins |-> 0,
                users |-> {}])
    /\ HarnessIdle

NextPurge == BinNext("d1")

SpecPurge == InitPurge /\ [][NextPurge]_vars

\* ------------------------------------------------------------- merge claims
CopiesOf(list, id) == Cardinality({i \in 1..Len(list) : list[i].id = id})

\* C1: after a merge, every id that is active on both sides with different
\* versions has exactly one copy in the merged active set, and it is the copy
\* with the greater version, whichever side holds it.
C1_LWWCorrect ==
    mrg.runs >= 1 =>
      \A id \in Ids(mrg.localTasks) \cap Ids(CloudTasks(mrg.cloud)) :
        LET l == Find(mrg.localTasks, id)
            c == Find(CloudTasks(mrg.cloud), id)
        IN Ver(l) # Ver(c) =>
             /\ CopiesOf(mrg.first.tasks, id) = 1
             /\ Find(mrg.first.tasks, id) = IF Ver(l) > Ver(c) THEN l ELSE c

\* A merge in which one id is newer remotely ("bar" wins) and another id is
\* newer locally ("foo" wins).
C1_Witness ==
    /\ mrg.runs >= 1
    /\ \E a, b \in Ids(mrg.localTasks) \cap Ids(CloudTasks(mrg.cloud)) :
         /\ Ver(Find(mrg.localTasks, a)) < Ver(Find(CloudTasks(mrg.cloud), a))
         /\ Find(mrg.first.tasks, a).text = "bar"
         /\ Ver(Find(mrg.localTasks, b)) > Ver(Find(CloudTasks(mrg.cloud), b))
         /\ Find(mrg.first.tasks, b).text = "foo"

OneSided(id) ==
    (id \in Ids(mrg.localTasks)) # (id \in Ids(CloudTasks(mrg.cloud)))

TheOneSided(id) ==
    IF id \in Ids(mrg.localTasks) THEN Find(mrg.localTasks, id)
    ELSE Find(CloudTasks(mrg.cloud), id)

\* C5: after a merge, a record that is active on one side only, and whose id
\* is in neither tombstone set, is in the merged active set, unchanged.
C5_OneSidedKept ==
    mrg.runs >= 1 =>
      \A id \in Ids(mrg.localTasks) \cup Ids(CloudTasks(mrg.cloud)) :
        (/\ OneSided(id)
         /\ id \notin Ids(mrg.localDeleted)
         /\ id \notin Ids(CloudDeleted(mrg.cloud)))
        => /\ CopiesOf(mrg.first.tasks, id) = 1
           /\ Find(mrg.first.tasks, id) = TheOneSided(id)

\* A merge of record A, local only, with record B, remote only, no tombstones.
C5_Witness ==
    /\ mrg.runs >= 1
    /\ mrg.localDeleted = << >> /\ CloudDeleted(mrg.cloud) = << >>
    /\ \E a \in Ids(mrg.localTasks), b \in Ids(CloudTasks(mrg.cloud)) :
         /\ a \notin Ids(CloudTasks(mrg.cloud))
         /\ b \notin Ids(mrg.localTasks)
         /\ Ids(mrg.first.tasks) = {a, b}

\* C6: the second merge, run on the first merge's output against the same
\* row, yields the same active set, tombstone set and baseline hash.
C6_MergeIdempotent ==
    mrg.runs = 2 =>
      /\ mrg.second.tasks = mrg.first.tasks
      /\ mrg.second.deleted = mrg.first.deleted
      /\ mrg.second.hash = mrg.first.hash

\* A second merge after a first one that changed both local arrays, with a
\* tombstone id present on both sides.
C6_Witness ==
    /\ mrg.runs = 2
    /\ mrg.first.tasks # mrg.localTasks
    /\ mrg.first.deleted # mrg.localDeleted
    /\ Ids(mrg.localDeleted) \cap Ids(CloudDeleted(mrg.cloud)) # {}

\* ------------------------------------------------------------ system claims
\* Nothing of device d is pending: no timer, no call in flight, no notification.
Quiescent(d) ==
    /\ ~timer[d].armed
    /\ loads[d] = << >>
    /\ upserts[d] = << >>
    /\ events[d] = 0

\* C2: once the device is signed in, the session-start merge has run, every
\* timer has fired and every remote call has succeeded, each record created
\* offline and not deleted since is in the local active set and in the remote
\* row's tasks.
C2_OfflineCreatedSynced ==
    \A d \in AllDevices :
      (session[d] # NoSession /\ Quiescent(d) /\ used.fails = 0) =>
        \A id \in hist[d].offline :
          /\ HasId(tasks[d], id)
          /\ HasId(CloudTasks(remote[session[d]]), id)

\* C4: no id is both in the active set and in the tombstone set of a device.
C4_TombstoneExclusive ==
    \A d \in AllDevices : Ids(tasks[d]) \cap Ids(deletedTasks[d]) = {}

\* The timer callback of d runs in this step.
Fired(d) == timer[d].armed /\ ~timer'[d].armed /\ session'[d] # NoSession

\* An upsert of d is issued in this step.
Issued(d) == Len(upserts'[d]) > Len(upserts[d])

\* The state of d is one the timer callback uploads.
Uploadable(d) ==
    /\ ~syncInProgress[d]
    /\ Hash(tasks[d], deletedTasks[d]) # lastConvergedHash[d]
    /\ ~(tasks[d] = << >> /\ deletedTasks[d] = << >> /\ ~hasSynced[d])

\* C7 as stated: when the timer has fired after a burst of changes, exactly
\* one upsert has been issued since the last change.
C7_ExactlyOneUpsert ==
    \A d \in AllDevices :
      (session[d] # NoSession /\ ~timer[d].armed /\ hist[d].burst >= 1) =>
        hist[d].sent = 1

\* C7 amended: an upsert is issued only by the timer callback, 1500 ms after
\* the last change, at most once per burst, and carries the state after the
\* last change; the callback issues it exactly when no upload is in flight,
\* the state differs from the converged baseline and is not a fully empty
\* state of an installation that never synced.
C7_DebounceCollapse ==
    [][\A d \in AllDevices :
         /\ Issued(d) =>
              /\ Fired(d)
              /\ hist[d].sent = 0
              /\ now = hist[d].lastChange + DebounceMs
              /\ upserts'[d] = Append(upserts[d],
                                      [user |-> session[d], tasks |-> tasks[d],
                                       deleted |-> deletedTasks[d],
                                       hash |-> Hash(tasks[d], deletedTasks[d]),
                                       stage |-> "sent", synced |-> hasSynced[d]])
         /\ Fired(d) => (Issued(d) <=> Uploadable(d))]_vars

\* A burst of two changes followed by its single upsert, carrying the state.
C7_Witness ==
    \E d \in AllDevices :
      /\ hist[d].burst >= 2 /\ hist[d].sent = 1 /\ ~timer[d].armed
      /\ Len(upserts[d]) = 1
      /\ upserts[d][1].tasks = tasks[d] /\ upserts[d][1].deleted = deletedTasks[d]

\* C8: a device has at most one upsert call in flight, and syncInProgressRef
\* is true exactly while that call is in flight or being settled.
C8_SingleFlight ==
    \A d \in AllDevices :
      /\ Len(upserts[d]) <= 1
      /\ syncInProgress[d] <=> (Len(upserts[d]) = 1)

\* A timer that fired while the upload was in flight and started no second one.
C8_Witness ==
    \E d \in AllDevices :
      hist[d].dropped /\ Len(upserts[d]) = 1 /\ upserts[d][1].stage = "sent"

\* C9: after a timer fired during an upload, and without a further user
\* mutation, once nothing is pending and no call failed the remote row holds
\* the local state.
C9_DeferredNotDropped ==
    \A d \in AllDevices :
      (hist[d].dropped /\ session[d] # NoSession /\ Quiescent(d) /\ used.fails = 0)
        => remote[session[d]] = Row(tasks[d], deletedTasks[d])

\* C10 as stated: an upsert with an empty tasks array is sent only with the
\* has-synced flag set, whatever the tombstones.
C10_NoEmptyTasksUnsynced ==
    \A d \in AllDevices : \A i \in 1..Len(upserts[d]) :
      upserts[d][i].tasks = << >> => upserts[d][i].synced

\* C10 amended: an upsert with both arrays empty is sent only with the
\* has-synced flag set.
C10_NoFullyEmptyUnsynced ==
    \A d \in AllDevices : \A i \in 1..Len(upserts[d]) :
      (upserts[d][i].tasks = << >> /\ upserts[d][i].deleted = << >>)
        => upserts[d][i].synced

\* The timer has fired on a fully empty state of an installation that never
\* synced and has no baseline yet, and no upsert was sent.
C10_Witness ==
    \E d \in AllDevices :
      /\ session[d] # NoSession /\ ~timer[d].armed
      /\ tasks[d] = << >> /\ deletedTasks[d] = << >>
      /\ ~hasSynced[d] /\ lastConvergedHash[d] = NoHash
      /\ upserts[d] = << >> /\ hist[d].sent = 0

\* C11 as stated: a timer that fires after a merge triggered by a realtime
\* notification, with no user mutation since the merge, issues no upsert.
C11_NoUploadAfterMerge ==
    [][\A d \in AllDevices : (Fired(d) /\ hist[d].merged) => ~Issued(d)]_vars

\* C11 amended: such a timer issues an upsert only if an upload of the same
\* device settled after the merge and replaced the baseline the merge had
\* recorded; otherwise its callback starts no upload.
C11_UploadAfterMergeOnlyIfSettled ==
    [][\A d \in AllDevices :
         (Fired(d) /\ hist[d].merged /\ ~hist[d].settled) => ~Issued(d)]_vars

\* The timer set by a realtime merge has fired, no upload of the device
\* settled in between, and no upsert was issued.
C11_Witness ==
    \E d \in AllDevices :
      /\ session[d] # NoSession /\ hist[d].merged /\ ~hist[d].settled
      /\ ~timer[d].armed /\ hist[d].sent = 0 /\ upserts[d] = << >>

\* The auto-purge effect of d runs in this step.
Swept(d) == hist'[d].sweptAt # hist[d].sweptAt

\* C12: a sweep retains a tombstone deleted exactly 24 hours before it and
\* removes a tombstone deleted one millisecond earlier than that.
C12_BoundaryRetained ==
    [][\A d \in AllDevices : Swept(d) =>
         \A i \in 1..Len(deletedTasks[d]) :
           LET tomb == deletedTasks[d][i]
           IN /\ tomb.deletedAt = now - TwentyFourHours
                   => HasId(deletedTasks'[d], tomb.id)
              /\ tomb.deletedAt = now - TwentyFourHours - 1
                   => ~HasId(deletedTasks'[d], tomb.id)]_vars

\* C13: a step never puts into the active set a record whose tombstone was
\* deleted more than 24 hours before the step.
C13_ExpiredUnreachable ==
    [][\A d \in AllDevices : \A i \in 1..Len(deletedTasks[d]) :
         LET tomb == deletedTasks[d][i]
         IN (tomb.deletedAt < now' - TwentyFourHours /\ ~HasId(tasks[d], tomb.id))
              => ~HasId(tasks'[d], tomb.id)]_vars

\* C14: once a sweep has met the tombstone of a record past the retention
\* window, the record is in neither set for good, and a restoreTask call for
\* it finds nothing and leaves both sets as they are.
C14_RestoreNotFound ==
    [][\A d \in AllDevices : \A id \in hist[d].expired :
         /\ ~HasId(tasks'[d], id) /\ ~HasId(deletedTasks'[d], id)
         /\ (id \in hist'[d].notFound /\ id \notin hist[d].notFound)
              => (tasks'[d] = tasks[d] /\ deletedTasks'[d] = deletedTasks[d])]_vars

\* A record was deleted, swept after its window, and restoreTask was then
\* called for it.
C14_Witness ==
    \E d \in AllDevices : \E id \in hist[d].expired \cap hist[d].notFound :
      ~HasId(tasks[d], id) /\ ~HasId(deletedTasks[d], id)

\* The copy of record id the device holds, active or tombstone.
Held(ts, dts, id) == IF HasId(ts, id) THEN Find(ts, id) ELSE Find(dts, id)

\* C15: a handler that changes a record the device holds gives it a version
\* that is not less than the version it had and not less than the clock
\* reading of the call.
C15_VersionMonotonic ==
    [][\A d \in AllDevices :
         used'.ops = used.ops + 1 =>
           \A id \in (Ids(tasks[d]) \cup Ids(deletedTasks[d]))
                      \cap (Ids(tasks'[d]) \cup Ids(deletedTasks'[d])) :
             LET before == Held(tasks[d], deletedTasks[d], id)
                 after == Held(tasks'[d], deletedTasks'[d], id)
             IN before # after => (Ver(after) >= Ver(before) /\ Ver(after) >= now')]_vars

\* C16: a device has at most one channel subscribed; with a session it is the
\* channel filtered on the session's user, without a session there is none,
\* so the channel of a session that ended is gone.
C16_OneChannel ==
    \A d \in AllDevices :
      /\ Cardinality(channel[d]) <= 1
      /\ channel[d] = IF session[d] = NoSession THEN {} ELSE {session[d]}

\* The device went from the session of one user straight to that of another.
C16_Witness ==
    \E d \in AllDevices :
      /\ session[d] # NoSession /\ hist[d].prev # NoSession
      /\ hist[d].prev # session[d] /\ channel[d] = {session[d]}

\* C3: with both devices signed in, nothing pending on either and no failed
\* call, the active sets and the tombstone sets of the two devices and of the
\* remote row are equal.
C3_Converged ==
    ((\A d \in AllDevices : session[d] # NoSession /\ Quiescent(d)) /\ used.fails = 0)
      => \A d \in AllDevices :
           /\ Range(tasks[d]) = Range(CloudTasks(remote[session[d]]))
           /\ Range(deletedTasks[d]) = Range(CloudDeleted(remote[session[d]]))
           /\ \A e \in AllDevices :
                /\ Range(tasks[d]) = Range(tasks[e])
                /\ Range(deletedTasks[d]) = Range(deletedTasks[e])

\* C19: a value written to lastConvergedHashRef is the hash of the state the
\* remote store holds for some user at that moment (no row: the empty state).
C19_BaselineIsRemote ==
    [][\A d \in AllDevices :
         (lastConvergedHash'[d] # lastConvergedHash[d] /\ lastConvergedHash'[d] # NoHash)
           => \E u \in AllUsers :
                lastConvergedHash'[d] = Hash(CloudTasks(remote'[u]),
                                             CloudDeleted(remote'[u]))]_vars

\* C20: an upsert is issued only after a loadCloudData merge of the current
\* session has completed.
C20_NoUpsertBeforeFirstMerge ==
    [][\A d \in AllDevices : Issued(d) => hist[d].loaded]_vars

\* C17: a finished migration made no remote call and failed when there was no
\* session, made no remote call and succeeded with count 0 when there was
\* nothing to migrate, and otherwise, unless the call threw, stored the rows
\* the table accepts and reported success with their number.
C17_PartialMigration ==
    mig.stage = "done" =>
      IF mig.session = NoSession
      THEN mig.calls = 0 /\ ~mig.result.success
      ELSE IF mig.tasks = << >>
      THEN mig.calls = 0 /\ mig.result.success /\ mig.result.count = 0
      ELSE mig.result.error # "exception" =>
             /\ mig.table = Accepted(mig.batch, mig.rejects)
             /\ mig.result.success
             /\ mig.result.count = Cardinality(Accepted(mig.batch, mig.rejects))

\* C18: after an UPDATE event whose row is older than the local copy of the
\* task, the local copy is what it was.
C18_NoBlindOverwrite ==
    rel.last.eventType = "UPDATE" =>
      \A i \in 1..Len(rel.before) :
        (rel.before[i].id = rel.last.row.id
         /\ rel.last.row.updated_at < rel.before[i].updatedAt)
          => rel.tasks[i] = rel.before[i]

\* The copy of record id in the row of user u, active or tombstone.
RemoteCopy(row, id) == Held(CloudTasks(row), CloudDeleted(row), id)

RemoteIds(row) == Ids(CloudTasks(row)) \cup Ids(CloudDeleted(row))

\* C21: a step never replaces the remote copy of a record by a copy with a
\* lower version.
C21_RemoteVersionMonotonic ==
    [][\A u \in AllUsers : \A id \in RemoteIds(remote[u]) \cap RemoteIds(remote'[u]) :
         Ver(RemoteCopy(remote'[u], id)) >= Ver(RemoteCopy(remote[u], id))]_vars

\* The loadCloudData call i of d completes with a fetched row in this step.
Merged(d, i) == loads[d][i].stage = "got" /\ loads'[d] = RemoveAt(loads[d], i)

\* C22: a merge keeps in the active set a local record whose version is
\* greater than that of the tombstone the fetched row holds for its id.
C22_RestoreWins ==
    [][\A d \in AllDevices : \A i \in 1..Len(loads[d]) :
         Merged(d, i) =>
           \A id \in Ids(tasks[d]) \cap Ids(CloudDeleted(loads[d][i].data)) :
             Ver(Find(CloudDeleted(loads[d][i].data), id)) < Ver(Find(tasks[d], id))
               => HasId(tasks'[d], id)]_vars

\* C23: a merge never puts back a tombstone for an id whose tombstone the
\* device removed by the sweep or by permanentlyDeleteTask.
C23_PurgedStaysPurged ==
    [][\A d \in AllDevices : \A i \in 1..Len(loads[d]) :
         Merged(d, i) =>
           \A id \in hist[d].removed :
             ~HasId(deletedTasks[d], id) => ~HasId(deletedTasks'[d], id)]_vars

\* C24: after a merge, an id that is active only in the fetched row and has a
\* tombstone on either side is not in the merged active set, and a tombstone
\* for it is in the merged tombstone set.
C24_DeletionWins ==
    mrg.runs >= 1 =>
      \A id \in Ids(CloudTasks(mrg.cloud)) \ Ids(mrg.localTasks) :
        id \in Ids(mrg.localDeleted) \cup Ids(CloudDeleted(mrg.cloud))
          => /\ ~HasId(mrg.first.tasks, id)
             /\ HasId(mrg.first.deleted, id)

\* A merge of a row that holds as active a record the local side has deleted:
\* the tombstone is local only, the active copy remote only.
C24_Witness ==
    /\ mrg.runs >= 1
    /\ \E id \in Ids(CloudTasks(mrg.cloud)) \ Ids(mrg.localTasks) :
         /\ id \in Ids(mrg.localDeleted) /\ id \notin Ids(CloudDeleted(mrg.cloud))
         /\ ~HasId(mrg.first.tasks, id)
         /\ Find(mrg.first.deleted, id) = Find(mrg.localDeleted, id)

\* The upsert call i of d settles as failed in this step: the callback
\* resumes in its error branch or in its catch block.
Failed(d, i) == upserts[d][i].stage = "err" /\ upserts'[d] = RemoveAt(upserts[d], i)

\* C25: a failed upsert leaves the baseline and the has-synced flag as they
\* were, releases syncInProgressRef and starts nothing; and the timer set by
\* a user mutation made after the failure, with no upsert issued since,
\* issues an upsert when it fires.
C25_FailedUploadRetried ==
    [][\A d \in AllDevices :
         /\ \A i \in 1..Len(upserts[d]) :
              Failed(d, i) =>
                /\ lastConvergedHash'[d] = lastConvergedHash[d]
                /\ hasSynced'[d] = hasSynced[d]
                /\ ~syncInProgress'[d]
                /\ timer'[d] = timer[d] /\ loads'[d] = loads[d]
                /\ upserts'[d] = << >>
         /\ (Fired(d) /\ hist[d].retry) => Issued(d)]_vars

\* A remote call of d completes in this step.
Completed(d) == Len(loads'[d]) < Len(loads[d]) \/ Len(upserts'[d]) < Len(upserts[d])

\* C26: without a session no timer is pending and no channel is subscribed,
\* no upsert and no loadCloudData call is started, and a call that completes
\* leaves the active set, the tombstone set and the baseline as they were.
C26_NothingAfterSignOut ==
    [][\A d \in AllDevices :
         (session[d] = NoSession /\ session'[d] = NoSession) =>
           /\ ~timer[d].armed /\ channel[d] = {}
           /\ ~Issued(d) /\ Len(loads'[d]) <= Len(loads[d])
           /\ Completed(d) =>
                /\ tasks'[d] = tasks[d]
                /\ deletedTasks'[d] = deletedTasks[d]
                /\ lastConvergedHash'[d] = lastConvergedHash[d]]_vars

\* fetchRemoteTasks resumes with a result in this step.
FetchedNow == rel.fetch = "got" /\ rel'.fetch = "none"

\* C27: fetchRemoteTasks resuming with a result keeps every local task that
\* the table does not hold, that no call in flight carries and that has no
\* tombstone.
C27_FetchKeepsLocalOnly ==
    [][FetchedNow =>
         \A id \in Ids(rel.tasks) :
           (id \notin Ids(rel.table) /\ id \notin Ids(rel.fetched)
            /\ id \notin Ids(rel.calls)
            /\ id \notin Ids(rel.deletedTasks))
             => HasId(rel'.tasks, id)]_vars

\* C28: the local tasks of the relational App never hold two records with
\* the same id.
C28_UniqueIds ==
    \A i, j \in 1..Len(rel.tasks) : i # j => rel.tasks[i].id # rel.tasks[j].id

\* C29: an upsert issued for a user who signed in on the signed-out device
\* carries no record that was created on the device during a session of
\* another user.
C29_NoCrossAccountUpload ==
    [][\A d \in AllDevices :
         (Issued(d) /\ hist[d].prev = NoSession) =>
           LET up == upserts'[d][Len(upserts'[d])]
           IN \A m \in hist[d].made :
                (m.user # NoSession /\ m.user # up.user)
                  => m.id \notin Ids(up.tasks) \cup Ids(up.deleted)]_vars

\* C30: pointer-move events leave the board as it is; a release classified as
\* a click calls neither onMove nor onMoveEnd and leaves the board as it is;
\* any other release calls onMove and onMoveEnd exactly once each, with the
\* last clamped position, and issues at most one remote position update.
C30_OneCommitPerDrag ==
    [][/\ (node.isDragging /\ node'.isDragging) => rel' = rel
       /\ (node.isDragging /\ ~node'.isDragging) =>
            IF node'.click
            THEN /\ Len(SelectSeq(node'.calls, LAMBDA c : c.fn # "onExpand")) = 0
                 /\ rel' = rel
            ELSE /\ SelectSeq(node'.calls, LAMBDA c : c.fn = "onMove")
                      = <<[fn |-> "onMove", x |-> node.dragPosition.x,
                           y |-> node.dragPosition.y]>>
                 /\ SelectSeq(node'.calls, LAMBDA c : c.fn = "onMoveEnd")
                      = <<[fn |-> "onMoveEnd", x |-> node.dragPosition.x,
                           y |-> node.dragPosition.y]>>
                 /\ Len(rel'.updates) <= Len(rel.updates) + 1]_vars

====
